---------------------------- MODULE Spec2Model ----------------------------
(***************************************************************************)
(* Model of src/backend/main.py: the WhatsApp webhook of the video bot.    *)
(*                                                                         *)
(* whatsapp_webhook spawns one asyncio task per valid message              *)
(* (asyncio.create_task(handle_incoming_message(...))).  All tasks run on  *)
(* the single event loop of the process.  Every external call made by a    *)
(* job body (replicate.run, requests.get, ffmpeg, twilio create) is a      *)
(* synchronous call inside an async def, and every awaited coroutine       *)
(* (send_whatsapp_message, compress_video, ...) contains no suspension     *)
(* point, so a started task keeps the event loop until it returns.         *)
(*                                                                         *)
(* A message body is modelled as the result of message_body.split(): a     *)
(* sequence of words; a word is [k, eq, v]: the text before the first '=', *)
(* whether the word contains '=', and the text after it.                   *)
(***************************************************************************)
EXTENDS Integers, Sequences, FiniteSets, TLC

\* ------------------------------------------------------------------ bounds

\* Number of webhook messages accepted in a run of Spec.
MaxJobs == 2

\* Number of webhook messages accepted in a run of SpecLoad.
MaxLoadJobs == 101

\* Number of webhook requests in a run of SpecHook.
MaxHookRequests == 3

\* Number of webhook messages accepted in a run of SpecSettings.
MaxSettingsJobs == 2

\* Number of webhook messages accepted in a run of SpecGen.
MaxGenJobs == 1

\* The longest duration probed in SpecGen, in hundredths of a second.
MaxDuration == 1200

\* ------------------------------------------------------------------ inputs

W(t) == [k |-> t, eq |-> FALSE, v |-> ""]

KV(key, value) == [k |-> key, eq |-> TRUE, v |-> value]

FromNumbers == {"+111", "+222"}

Bodies ==
  { <<W("/settings"), KV("fps", "60")>>,
    <<W("/settings"), KV("duration", "10")>>,
    <<W("!generate"), W("cat")>>,
    <<W("/help")>> }

\* The messages of SpecGen: one sender asking for a video, with a prompt that
\* holds none of the moderated keywords and with one that does.
GenFromNumbers == {"+111"}

GenBodies ==
  { <<W("!generate"), W("cat")>>,
    <<W("!generate"), W("violence")>> }

\* The messages of SpecSettings: the query, updates in the key=value and in
\* the old format, and commands whose key or value is not an allowed one.
SettingsBodies ==
  { <<W("/settings")>>,
    <<W("/settings"), KV("aspect_ratio", "1:1")>>,
    <<W("/settings"), KV("resolution", "1080p"), KV("fps", "24")>>,
    <<W("/settings"), W("ratio"), W("9:16")>>,
    <<W("/settings"), W("fps"), W("60")>>,
    <<W("/settings"), KV("time", "3")>>,
    <<W("/settings"), KV("duration", "10"), KV("fps", "25")>>,
    <<W("/settings"), KV("fps", "25")>>,
    <<W("/settings"), KV("duration", "7")>>,
    <<W("/settings"), KV("resolution", "4k")>>,
    <<W("/settings"), KV("color", "red")>>,
    <<W("/settings"), W("ratio"), W("2:1")>> }

\* White space in a message body.
WhiteSpace == W(" ")

\* The requests of SpecHook: a message and the same message with white space
\* around it, a From that is only the prefix, an absent From, a blank Body,
\* an absent Body, and a request whose form cannot be read.
HookRequests ==
  { [From |-> <<"whatsapp:", "+111">>, Body |-> <<W("/help")>>, readable |-> TRUE],
    [From |-> <<"whatsapp:", "+111">>, Body |-> <<WhiteSpace, W("/help"), WhiteSpace>>,
     readable |-> TRUE],
    [From |-> <<"whatsapp:">>, Body |-> <<W("/help")>>, readable |-> TRUE],
    [From |-> <<>>, Body |-> <<W("/help")>>, readable |-> TRUE],
    [From |-> <<"whatsapp:", "+111">>, Body |-> <<WhiteSpace>>, readable |-> TRUE],
    [From |-> <<"whatsapp:", "+111">>, Body |-> <<>>, readable |-> TRUE],
    [From |-> <<"whatsapp:", "+111">>, Body |-> <<W("/help")>>, readable |-> FALSE] }

LoadFromNumbers == {"+111"}

LoadBodies == { <<W("/help")>> }

\* ------------------------------------------------------- program constants

VIDEO_TRIGGER == "!generate"

DEFAULT_SETTINGS ==
  [aspect_ratio |-> "16:9", resolution |-> "720p", fps |-> 30, duration |-> 5]

inappropriate_keywords == {"violence", "hate", "explicit", "harmful"}

\* str.isdigit() and int() on the values the inputs use.
IntOf == [s \in {"3", "5", "7", "10", "24", "25", "30", "60"} |->
            CASE s = "3" -> 3 [] s = "5" -> 5 [] s = "7" -> 7 [] s = "10" -> 10
              [] s = "24" -> 24 [] s = "25" -> 25 [] s = "30" -> 30 [] OTHER -> 60]

isdigit(s) == s \in DOMAIN IntOf

\* ------------------------------------------------------------ pure helpers

\* dict.update: the keys of u overwrite those of d.
DictUpdate(d, u) ==
  [key \in DOMAIN d \cup DOMAIN u |-> IF key \in DOMAIN u THEN u[key] ELSE d[key]]

\* d[key] = value on a dict d.
DictSet(d, key, value) ==
  [q \in DOMAIN d \cup {key} |-> IF q = key THEN value ELSE d[q]]

NoUpdates == [key \in {} |-> 0]

\* A parser that takes any number for fps and duration.
ParsePart_AnyNumber(part) ==
  LET key == part.k
      value == part.v
  IN  IF key \in {"aspect_ratio", "ratio"} /\ value \in {"16:9", "9:16", "1:1", "4:3"}
        THEN [aspect_ratio |-> value]
      ELSE IF key = "resolution" /\ value \in {"480p", "720p", "1080p"}
        THEN [resolution |-> value]
      ELSE IF key = "fps" /\ isdigit(value) THEN [fps |-> IntOf[value]]
      ELSE IF key \in {"duration", "time"} /\ isdigit(value) THEN [duration |-> IntOf[value]]
      ELSE NoUpdates

\* One key=value part of a settings command (lines 96-112).
ParsePart(part) ==
  LET key == part.k
      value == part.v
  IN  IF key \in {"aspect_ratio", "ratio"} /\ value \in {"16:9", "9:16", "1:1", "4:3"}
        THEN [aspect_ratio |-> value]
      ELSE IF key = "resolution" /\ value \in {"480p", "720p", "1080p"}
        THEN [resolution |-> value]
      ELSE IF key = "fps" /\ isdigit(value)
        THEN IF IntOf[value] \in {24, 30, 60} THEN [fps |-> IntOf[value]] ELSE NoUpdates
      ELSE IF key \in {"duration", "time"} /\ isdigit(value)
        THEN IF IntOf[value] \in {3, 5, 10} THEN [duration |-> IntOf[value]] ELSE NoUpdates
      ELSE NoUpdates

\* The old format '/settings ratio 16:9' (lines 115-131): decided by the first
\* two parts; an unrecognised pair ends the loop.
ParseOld(settings_parts) ==
  LET setting_type == settings_parts[1].k
      setting_value == settings_parts[2].k
  IN  IF settings_parts[1].eq \/ settings_parts[2].eq THEN NoUpdates
      ELSE IF setting_type \in {"ratio", "aspect_ratio"}
              /\ setting_value \in {"16:9", "9:16", "1:1", "4:3"}
        THEN [aspect_ratio |-> setting_value]
      ELSE IF setting_type = "resolution" /\ setting_value \in {"480p", "720p", "1080p"}
        THEN [resolution |-> setting_value]
      ELSE IF setting_type = "fps" /\ isdigit(setting_value)
        THEN IF IntOf[setting_value] \in {24, 30, 60}
               THEN [fps |-> IntOf[setting_value]] ELSE NoUpdates
      ELSE IF setting_type \in {"duration", "time"} /\ isdigit(setting_value)
        THEN IF IntOf[setting_value] \in {3, 5, 10}
               THEN [duration |-> IntOf[setting_value]] ELSE NoUpdates
      ELSE NoUpdates

RECURSIVE ParseLoop(_, _, _)
ParseLoop(settings_parts, i, updates) ==
  IF i > Len(settings_parts) THEN updates
  ELSE IF settings_parts[i].eq
    THEN ParseLoop(settings_parts, i + 1, DictUpdate(updates, ParsePart(settings_parts[i])))
  ELSE IF Len(settings_parts) >= 2
    THEN LET old == ParseOld(settings_parts)
         IN  IF old # NoUpdates THEN old ELSE updates
  ELSE ParseLoop(settings_parts, i + 1, updates)

\* parse_settings_command: the updates dict; NoUpdates stands for None (both
\* are falsy at the only call site, "if updates:").
parse_settings_command(message) ==
  IF Len(message) < 2 THEN NoUpdates ELSE ParseLoop(Tail(message), 1, NoUpdates)

\* moderate_content returns a pair (verdict, reason).
moderate_content(text) ==
  IF \E i \in 1..Len(text) : text[i].k \in inappropriate_keywords
    THEN <<FALSE, "Content contains inappropriate keyword">>
    ELSE <<TRUE, "Content is appropriate">>

\* Python truthiness of a tuple: non-empty.
Truthy(t) == Len(t) > 0

\* ------------------------------------------------------------------- state

VARIABLES
  jobs,                \* the tasks created by the webhook, in creation order
  ready,               \* the event loop's queue of created, not yet started tasks
  conversation_state,  \* dict phone_number -> dict
  user_preferences,    \* dict phone_number -> settings dict
  default_settings,    \* the module-level dict DEFAULT_SETTINGS
  tmp,                 \* the files in the temp directory
  static,              \* the files in /tmp/videos
  answered             \* the requests answered: request, response, task created

vars == <<jobs, ready, conversation_state, user_preferences, default_settings, tmp,
          static, answered>>

None == <<"None", 0, "">>

TempFile(j, suffix) == <<"tmp", j, suffix>>

ReplicateUrl(j) == <<"replicate", j, "video">>

\* A task that has been created and not started.  The locals of
\* compress_video are numbers: the duration in hundredths of a second, the
\* video bitrate in kbit/s, the scale filter in tenths (10 when there is no
\* filter) and the size in bytes os.path.getsize last returned for an output.
NewJob(from_number, message_body) ==
  [phone_number |-> from_number, message_body |-> message_body,
   pc |-> "pending", result |-> "",
   video_url |-> None, input_path |-> None, output_path |-> None,
   output_path2 |-> None, compressed_video_path |-> None,
   final_video_url |-> None, video_sent |-> "", error |-> "", cv_error |-> "",
   max_size_mb |-> 0, duration |-> 0, target_bitrate |-> 0, scale |-> 0,
   output_bytes |-> 0, prefs |-> NoUpdates,
   calls |-> <<>>]

Init ==
  /\ jobs = <<>>
  /\ ready = <<>>
  /\ conversation_state = [p \in {} |-> 0]
  /\ user_preferences = [p \in {} |-> 0]
  /\ default_settings = DEFAULT_SETTINGS
  /\ tmp = {}
  /\ static = {}
  /\ answered = <<>>

Executing(j) == jobs[j].pc \notin {"pending", "done"}

ExecutingJobs == {j \in DOMAIN jobs : Executing(j)}

\* A loop whose callbacks run while a task is inside an external call, as if
\* the calls were awaited.
LoopFree_Yielding == TRUE

\* The event loop can run a callback only when no task holds it: the job
\* bodies make their external calls synchronously and never suspend.
LoopFree == ExecutingJobs = {}


Put(j, rec) == jobs' = [jobs EXCEPT ![j] = rec]

\* --------------------------------------------------------- message delivery

\* A message text: which text it is, the URLs written in it and the exception
\* text str(e) written in it ("" when there is none).
Msg(kind, links, detail) == [kind |-> kind, links |-> links, detail |-> detail]

\* One twilio_client.messages.create call and whether it succeeded; returned
\* is what send_whatsapp_message returned after the call ("" when it went on
\* to another call).
Create(message, media_url, ok) ==
  [body |-> message, media_url |-> media_url, ok |-> ok, returned |-> ""]

Returning(call, value) == [call EXCEPT !.returned = value]

\* A send without the try/except around the create call: a failing create
\* raises to the caller.
send_whatsapp_message_raising(message, media_url, createOk, retryOk) ==
  LET ret == IF createOk THEN "True" ELSE "raise"
  IN  [ret |-> ret, calls |-> <<Returning(Create(message, media_url, createOk), ret)>>]

\* A send that gives up after the first failure, with or without media.
send_whatsapp_message_once(message, media_url, createOk, retryOk) ==
  LET ret == IF createOk THEN "True" ELSE "False"
  IN  [ret |-> ret, calls |-> <<Returning(Create(message, media_url, createOk), ret)>>]

\* A send that does not report the success of its text-only retry.
send_whatsapp_message_retry_unreported(message, media_url, createOk, retryOk) ==
  LET first == Create(message, media_url, createOk)
      retry == Create(Msg(message.kind, message.links \cup {media_url}, message.detail), None, retryOk)
  IN  IF createOk THEN [ret |-> "True", calls |-> <<Returning(first, "True")>>]
      ELSE IF media_url # None
        THEN [ret |-> "False", calls |-> <<first, Returning(retry, "False")>>]
      ELSE [ret |-> "False", calls |-> <<Returning(first, "False")>>]

\* send_whatsapp_message(to, message, media_url): the create calls it makes and
\* what it returns, given the outcome of the first create and of the text-only
\* retry.  A failing create is caught (line 282); with a media URL the text is
\* sent again with the URL appended (lines 286-296).
send_whatsapp_message(message, media_url, createOk, retryOk) ==
  LET first == Create(message, media_url, createOk)
      retry == Create(Msg(message.kind, message.links \cup {media_url}, message.detail), None, retryOk)
      retried == IF retryOk THEN "True" ELSE "False"
  IN  IF createOk THEN [ret |-> "True", calls |-> <<Returning(first, "True")>>]
      ELSE IF media_url # None
        THEN [ret |-> retried, calls |-> <<first, Returning(retry, retried)>>]
      ELSE [ret |-> "False", calls |-> <<Returning(first, "False")>>]

\* ------------------------------------------------------------------ webhook

\* A request to /webhook: the From and Body fields of its form (an absent
\* field reads as ''), and whether the form can be read at all.  From is the
\* pieces of the string, Body its words with the white space around them.
Request(From, Body, readable) == [From |-> From, Body |-> Body, readable |-> readable]

\* A Twilio request for message body b of sender f.
TwilioRequest(f, b) == Request(<<"whatsapp:", f>>, b, TRUE)

\* str(MessagingResponse()): a TwiML response with nothing in it.
EmptyTwiML == "<?xml version=\"1.0\" encoding=\"UTF-8\"?><Response />"

\* From.replace('whatsapp:', '') (line 1175): what is left of the string.
replace(From, old) ==
  LET rest == SelectSeq(From, LAMBDA piece : piece # old)
  IN  IF rest = <<>> THEN "" ELSE rest[1]

\* A Body that is taken as it comes.
strip_nothing(Body) == Body

\* Body.strip() (line 1176): the white space at both ends is dropped.
RECURSIVE strip(_)
strip(Body) ==
  IF Body = <<>> THEN <<>>
  ELSE IF Head(Body) = WhiteSpace THEN strip(Tail(Body))
  ELSE IF Body[Len(Body)] = WhiteSpace THEN strip(SubSeq(Body, 1, Len(Body) - 1))
  ELSE Body

\* whatsapp_webhook (lines 1168-1198): every request is answered with an
\* empty TwiML response; a readable request with a sender and a body creates
\* one task first.  The handler is a callback of the event loop.  max bounds
\* the number of requests in a run.
whatsapp_webhook(request, max) ==
  /\ LoopFree
  /\ Len(answered) < max
  /\ LET from_number == replace(request.From, "whatsapp:")
         message_body == strip(request.Body)
         task == IF request.readable /\ from_number # "" /\ message_body # <<>>
                   THEN Len(jobs) + 1 ELSE 0
     IN  /\ jobs' = IF task # 0 THEN Append(jobs, NewJob(from_number, message_body))
                    ELSE jobs
         /\ ready' = IF task # 0 THEN Append(ready, task) ELSE ready
         /\ answered' = Append(answered, [request |-> request, content |-> EmptyTwiML,
                                          task |-> task])
  /\ UNCHANGED <<default_settings, conversation_state, user_preferences, tmp, static>>

Webhook == \E f \in FromNumbers, b \in Bodies : whatsapp_webhook(TwilioRequest(f, b), MaxJobs)

WebhookLoad ==
  \E f \in LoadFromNumbers, b \in LoadBodies :
    whatsapp_webhook(TwilioRequest(f, b), MaxLoadJobs)

WebhookGen ==
  \E f \in GenFromNumbers, b \in GenBodies :
    whatsapp_webhook(TwilioRequest(f, b), MaxGenJobs)

WebhookSettings ==
  \E f \in FromNumbers, b \in SettingsBodies :
    whatsapp_webhook(TwilioRequest(f, b), MaxSettingsJobs)

WebhookHook == \E request \in HookRequests : whatsapp_webhook(request, MaxHookRequests)

\* A loop that starts the task created last.
NextReady_Newest == ready[Len(ready)]

\* The task the event loop runs next: tasks start in creation order.
NextReady == Head(ready)

\* The routing of handle_incoming_message (lines 912-953): the handler the
\* message goes to.
Route(message_body) ==
  IF message_body[1].k = "/settings" THEN "settings"
  ELSE IF message_body[1].k = "/help" THEN "help"
  ELSE IF message_body[1].k = VIDEO_TRIGGER
    THEN IF Len(message_body) = 1 THEN "noprompt" ELSE "generate"
  ELSE "welcome"

\* The event loop starts the next created task: handle_incoming_message
\* begins and routes the message.
StartJob ==
  /\ LoopFree
  /\ ready # <<>>
  /\ LET j == NextReady
     IN  /\ Put(j, [jobs[j] EXCEPT !.pc = Route(jobs[j].message_body)])
         /\ ready' = SelectSeq(ready, LAMBDA x : x # j)
  /\ UNCHANGED <<answered, default_settings, conversation_state, user_preferences, tmp, static>>

\* What a handler does with the value of a send it awaits: it goes on (pc ok)
\* unless the send raised, which the enclosing try catches (pc handler).
AfterSend(ret, okPc, handlerPc) == IF ret = "raise" THEN handlerPc ELSE okPc

\* The replies of handle_incoming_message that are one send: /help (929),
\* a trigger without prompt (936) and any other text (952); each returns True.
Reply(j) ==
  /\ jobs[j].pc \in {"help", "noprompt", "welcome"}
  /\ \E createOk \in BOOLEAN :
       LET s == send_whatsapp_message(Msg(jobs[j].pc, {}, ""), None, createOk, FALSE)
       IN  Put(j, [jobs[j] EXCEPT !.calls = @ \o s.calls,
                                  !.pc = AfterSend(s.ret, "return", "him_err_send"),
                                  !.result = IF s.ret = "raise" THEN "" ELSE "True"])
  /\ UNCHANGED <<answered, default_settings, ready, conversation_state, user_preferences, tmp, static>>

\* handle_incoming_message returns (or ends with the exception it could not
\* handle): the task is done and its frame is released.
Finish(j) ==
  /\ jobs[j].pc = "return"
  /\ Put(j, [NewJob(jobs[j].phone_number, jobs[j].message_body)
               EXCEPT !.pc = "done", !.result = jobs[j].result])
  /\ UNCHANGED <<answered, default_settings, ready, conversation_state, user_preferences, tmp, static>>

\* ------------------------------------------------------------------ settings

\* A settings update that starts from the defaults every time, without the
\* membership test.
UpdatedPreferences_Reset(phone_number, updates) ==
  DictSet(user_preferences, phone_number, DictUpdate(default_settings, updates))

\* The settings dict after an update (lines 1141-1144): the updates are
\* written over a copy of the defaults (first time) or over the sender's
\* settings, with no await between the membership test and the update.
UpdatedPreferences(phone_number, updates) ==
  LET base == IF phone_number \notin DOMAIN user_preferences
                THEN DictSet(user_preferences, phone_number, default_settings)
                ELSE user_preferences
  IN  DictSet(base, phone_number, DictUpdate(base[phone_number], updates))

\* dict.get(key, default).
get(d, key, default) == IF key \in DOMAIN d THEN d[key] ELSE default

\* A first update made on DEFAULT_SETTINGS itself, without the copy.
DefaultsAfterUpdate_Shared(phone_number, updates) ==
  IF phone_number \notin DOMAIN user_preferences
    THEN DictUpdate(default_settings, updates)
    ELSE default_settings

\* DEFAULT_SETTINGS after an update (lines 1141-1144): the sender's first
\* entry is DEFAULT_SETTINGS.copy(), so the update never writes the
\* module-level dict.
DefaultsAfterUpdate(phone_number, updates) == default_settings

\* handle_settings_command (lines 1121-1160): a bare '/settings' shows the
\* settings; otherwise the parsed updates are applied and confirmed, or the
\* command is reported invalid and the handler returns False.
handle_settings_command(j) ==
  /\ jobs[j].pc = "settings"
  /\ LET phone_number == jobs[j].phone_number
         message_body == jobs[j].message_body
         updates == parse_settings_command(message_body)
         show == message_body = <<W("/settings")>>
         changed == ~show /\ updates # NoUpdates
         kind == IF show THEN "settings" ELSE IF changed THEN "updated" ELSE "invalid"
         prefs == IF show THEN get(user_preferences, phone_number, default_settings)
                  ELSE IF changed THEN UpdatedPreferences(phone_number, updates)[phone_number]
                  ELSE NoUpdates
     IN  /\ user_preferences' =
              IF changed THEN UpdatedPreferences(phone_number, updates)
              ELSE user_preferences
         /\ default_settings' =
              IF changed THEN DefaultsAfterUpdate(phone_number, updates)
              ELSE default_settings
         /\ \E createOk \in BOOLEAN :
              LET s == send_whatsapp_message(Msg(kind, {}, ""), None, createOk, FALSE)
              IN  Put(j, [jobs[j] EXCEPT
                            !.calls = @ \o s.calls,
                            !.prefs = prefs,
                            !.pc = AfterSend(s.ret, "return", "hsc_err_send"),
                            !.result = IF s.ret = "raise" THEN ""
                                       ELSE IF kind = "invalid" THEN "False" ELSE "True"])
  /\ UNCHANGED <<answered, ready, conversation_state, tmp, static>>

\* --------------------------------------------------------------- generation

\* The prompt: the text after the trigger (line 934).
Prompt(j) == Tail(jobs[j].message_body)

\* handle_video_generation up to the acknowledgment (lines 966-980).
hvg_acknowledge(j) ==
  /\ jobs[j].pc = "generate"
  /\ conversation_state' =
       DictSet(conversation_state, jobs[j].phone_number,
               [stage |-> "generating", prompt |-> Prompt(j)])
  /\ \E createOk \in BOOLEAN :
       LET s == send_whatsapp_message(Msg("ack", {}, ""), None, createOk, FALSE)
       IN  Put(j, [jobs[j] EXCEPT !.calls = @ \o s.calls,
                                  !.pc = AfterSend(s.ret, "moderate", "hvg_err_send"),
                                  !.error = IF s.ret = "raise" THEN "TwilioError" ELSE ""])
  /\ UNCHANGED <<answered, default_settings, ready, user_preferences, tmp, static>>

\* What replicate.run can do: return a list with a URL, return nothing, raise.
ReplicateOutcomes == {"url", "empty", "raise"}

\* handle_video_generation from the moderation check to the provider call
\* (lines 983-1016).  The check tests the pair moderate_content returns.
hvg_generate(j) ==
  /\ jobs[j].pc = "moderate"
  /\ IF ~Truthy(moderate_content(Prompt(j)))
       THEN \E createOk \in BOOLEAN :
              LET s == send_whatsapp_message(Msg("moderation", {}, ""), None, createOk, FALSE)
              IN  /\ conversation_state' =
                       IF s.ret = "raise" THEN conversation_state
                       ELSE DictSet(conversation_state, jobs[j].phone_number,
                                    [stage |-> "rejected"])
                  /\ Put(j, [jobs[j] EXCEPT
                               !.calls = @ \o s.calls,
                               !.pc = AfterSend(s.ret, "return", "hvg_err_send"),
                               !.error = IF s.ret = "raise" THEN "TwilioError" ELSE "",
                               !.result = IF s.ret = "raise" THEN "" ELSE "False"])
       ELSE /\ UNCHANGED conversation_state
            /\ \E output \in ReplicateOutcomes :
                 Put(j, [jobs[j] EXCEPT
                           !.prefs = get(user_preferences, jobs[j].phone_number,
                                         default_settings),
                           !.pc = IF output = "url" THEN "cv_download" ELSE "hvg_err_send",
                           !.video_url = IF output = "url" THEN ReplicateUrl(j) ELSE None,
                           !.error = CASE output = "url" -> ""
                                       [] output = "empty" -> "No video output received from Replicate"
                                       [] OTHER -> "ReplicateError"])
  /\ UNCHANGED <<answered, default_settings, ready, user_preferences, tmp, static>>

\* -------------------------------------------------------------- compression

\* The budget handle_generated_video passes to compress_video (line 1053).
MAX_SIZE_MB == 15

\* The bytes of a megabyte (lines 185, 222).
MB == 1024 * 1024

\* Budgets a caller of compress_video can pass as max_size_mb (line 136).
Budgets == {1, 8, MAX_SIZE_MB, 16, 100}

\* The durations ffmpeg.probe reports, in hundredths of a second: a clip of
\* ten seconds in Spec; in SpecGen every duration up to MaxDuration, zero
\* included, and the first duration whose bitrate is zero.
SpecDurations == {10 * 100}

LongDuration == MAX_SIZE_MB * 8 * 1024 * 90 + 1

GenDurations == (0 .. MaxDuration) \cup {LongDuration}

\* The sizes os.path.getsize reports for an output, in bytes: on the budget
\* and one byte over it in Spec; in SpecGen also one byte under and twice the
\* budget.
SpecSizes == {MAX_SIZE_MB * MB, MAX_SIZE_MB * MB + 1}

GenSizes == {MAX_SIZE_MB * MB - 1, MAX_SIZE_MB * MB, MAX_SIZE_MB * MB + 1,
             2 * MAX_SIZE_MB * MB}

\* int(x) for a float x that was computed with a product by 0.9 or 0.7 and
\* whose exact value is num/den: the integer part; when the exact value is a
\* whole number the double may lie just below it (int(90 * 0.7) is 62), and
\* then int gives one less.
IntPart(num, den) ==
  IF num % den = 0 /\ num > 0 THEN {num \div den - 1, num \div den}
  ELSE {num \div den}

\* A plan that aims a fifth over the budget instead of a tenth under it.
AttemptZeroBitrate_Generous(max_size_mb, duration) ==
  IntPart(max_size_mb * 8 * 1024 * 120, duration)

\* The values of int((max_size_mb * 8 * 1024) / duration * 0.9) (line 164)
\* for a duration of duration/100 seconds.
AttemptZeroBitrate(max_size_mb, duration) ==
  IntPart(max_size_mb * 8 * 1024 * 90, duration)

\* The values of int(target_bitrate * 0.7) (line 199).
AttemptOneBitrate(target_bitrate) == IntPart(target_bitrate * 7, 10)

\* The scale filter of attempt 1, 'scale=iw*0.8:ih*0.8' (line 209), in
\* tenths; attempt 0 has no filter.
NoScale == 10

AttemptOneScale == 8

\* os.unlink of an existing file.
unlink(files, path) == files \ {path}

\* The except block of compress_video (lines 230-239): input_path and
\* output_path are removed when set and present.
CleanUp(files, input_path, output_path) == (files \ {input_path}) \ {output_path}

\* The plans compress_video can make for attempt 1 (lines 199-209) after an
\* attempt at target_bitrate whose output measured output_bytes against a
\* budget of max_size_mb: the bitrate is cut to seven tenths and the picture
\* scaled to eight tenths, whatever the two sizes are.
AttemptOnePlan(target_bitrate, output_bytes, max_size_mb) ==
  { [target_bitrate |-> b, scale |-> AttemptOneScale] :
      b \in AttemptOneBitrate(target_bitrate) }

\* The size test of compress_video (line 192), on a size in bytes:
\* os.path.getsize(output_path) / (1024 * 1024) > max_size_mb.
OverBudget_Never(output_bytes, max_size_mb) == FALSE

OverBudget(output_bytes, max_size_mb) == output_bytes > max_size_mb * MB

\* compress_video returns value: its frame is released and the caller
\* (handle_generated_video, line 1053) holds the value.  For a file that is
\* handed over, the budget and the size last measured stay on record until
\* the caller has dealt with the file.
CompressReturn(job, value, failed) ==
  [job EXCEPT !.pc = "compressed", !.compressed_video_path = value,
              !.input_path = None, !.output_path = None, !.output_path2 = None,
              !.duration = 0, !.target_bitrate = 0, !.scale = 0,
              !.max_size_mb = IF value = job.video_url THEN 0 ELSE @,
              !.output_bytes = IF value = job.video_url THEN 0 ELSE @,
              !.cv_error = failed]

\* An except block that starts the compression over instead of giving up.
CompressFailed_Retries(job, failed) ==
  [job EXCEPT !.pc = "cv_download", !.input_path = None, !.output_path = None,
              !.output_path2 = None, !.max_size_mb = 0, !.duration = 0,
              !.target_bitrate = 0, !.scale = 0, !.output_bytes = 0]

\* An except block that hands back the output path instead of the URL.
CompressFailed_ReturnsOutput(job, failed) == CompressReturn(job, job.output_path, failed)

\* What compress_video returns when the step named failed raised: the except
\* block returns the original URL (line 242).
CompressFailed(job, failed) == CompressReturn(job, job.video_url, failed)

\* A clean-up after attempt 0 that removes its output along with its input.
AfterAttemptZero_DeletesOutput(files, input_path, output_path) ==
  unlink(unlink(files, input_path), output_path)

\* The temp files after attempt 0 has been encoded and measured (line 189):
\* the downloaded input is deleted, the output is kept.
AfterAttemptZero(files, input_path, output_path) == unlink(files, input_path)

\* compress_video, the download (lines 145-156): the input temp file is
\* created, then filled from the URL; input_path is bound after the download.
cv_download(j) ==
  /\ jobs[j].pc = "cv_download"
  /\ \E ok \in BOOLEAN :
       IF ok
         THEN /\ tmp' = tmp \cup {TempFile(j, ".mp4"), TempFile(j, "_compressed.mp4")}
              /\ Put(j, [jobs[j] EXCEPT !.pc = "cv_probe",
                                        !.max_size_mb = MAX_SIZE_MB,
                                        !.input_path = TempFile(j, ".mp4"),
                                        !.output_path = TempFile(j, "_compressed.mp4")])
         ELSE /\ tmp' = CleanUp(tmp \cup {TempFile(j, ".mp4")}, None, None)
              /\ Put(j, CompressFailed(jobs[j], "download"))
  /\ UNCHANGED <<answered, default_settings, ready, conversation_state, user_preferences, static>>

\* compress_video, the probe and the plan of attempt 0 (lines 159-164): the
\* probe may raise, and a duration of zero raises in the division.
cv_probe(j, durations) ==
  /\ jobs[j].pc = "cv_probe"
  /\ \E ok \in BOOLEAN, duration \in durations :
       IF ok /\ duration > 0
         THEN /\ \E b \in AttemptZeroBitrate(jobs[j].max_size_mb, duration) :
                   Put(j, [jobs[j] EXCEPT !.pc = "cv_encode0",
                                          !.duration = duration,
                                          !.target_bitrate = b,
                                          !.scale = NoScale])
              /\ UNCHANGED tmp
         ELSE /\ tmp' = CleanUp(tmp, jobs[j].input_path, jobs[j].output_path)
              /\ Put(j, CompressFailed(jobs[j], "probe"))
  /\ UNCHANGED <<answered, default_settings, ready, conversation_state, user_preferences, static>>

\* compress_video, attempt 0 (lines 167-199): encode, measure, delete the
\* input; within the budget the output is returned; over it the file of the
\* second attempt is created and the second plan is made.
cv_encode0(j, sizes) ==
  /\ jobs[j].pc = "cv_encode0"
  /\ \E ok \in BOOLEAN, size \in sizes :
       IF ~ok
         THEN /\ tmp' = CleanUp(tmp, jobs[j].input_path, jobs[j].output_path)
              /\ Put(j, CompressFailed(jobs[j], "encode0"))
       ELSE IF ~OverBudget(size, jobs[j].max_size_mb)
         THEN /\ tmp' = AfterAttemptZero(tmp, jobs[j].input_path, jobs[j].output_path)
              /\ Put(j, CompressReturn([jobs[j] EXCEPT !.output_bytes = size],
                                       jobs[j].output_path, ""))
       ELSE /\ tmp' = AfterAttemptZero(tmp, jobs[j].input_path, jobs[j].output_path)
                        \cup {TempFile(j, "_compressed2.mp4")}
            /\ \E plan \in AttemptOnePlan(jobs[j].target_bitrate, size,
                                            jobs[j].max_size_mb) :
                 Put(j, [jobs[j] EXCEPT !.pc = "cv_encode1",
                                        !.output_bytes = size,
                                        !.output_path2 = TempFile(j, "_compressed2.mp4"),
                                        !.target_bitrate = plan.target_bitrate,
                                        !.scale = plan.scale])
  /\ UNCHANGED <<answered, default_settings, ready, conversation_state, user_preferences, static>>

\* compress_video, attempt 1 (lines 201-225): encode from the output of
\* attempt 0, delete that output, measure and log the size of the new file,
\* return the new file.
cv_encode1(j, sizes) ==
  /\ jobs[j].pc = "cv_encode1"
  /\ \E ok \in BOOLEAN, size \in sizes :
       IF ok
         THEN /\ tmp' = unlink(tmp, jobs[j].output_path)
              /\ Put(j, CompressReturn([jobs[j] EXCEPT !.output_bytes = size],
                                       jobs[j].output_path2, ""))
         ELSE /\ tmp' = CleanUp(tmp, jobs[j].input_path, jobs[j].output_path)
              /\ Put(j, CompressFailed(jobs[j], "encode1"))
  /\ UNCHANGED <<answered, default_settings, ready, conversation_state, user_preferences, static>>

\* ----------------------------------------------------------------- delivery

StaticFile(path) == <<"static", path[2], path[3]>>

\* The URL under which /tmp/videos/<filename> is served (line 316).
PublicUrl(path) == <<"public", path[2], path[3]>>

\* An upload that reports the public URL whether or not the copy was made.
upload_file_to_temp_server_blind(files, file_path, copyOk) == PublicUrl(file_path)

\* upload_file_to_temp_server (lines 302-322): the public URL when
\* shutil.copy2 copied the file into the static directory, None when it
\* raised; it raises when the file is not there to be read.
upload_file_to_temp_server(files, file_path, copyOk) ==
  IF copyOk /\ file_path \in files THEN PublicUrl(file_path) ELSE None

\* A clean-up that keeps the local file when the upload failed.
CleanUpLocal_KeepOnFailure(files, path, uploaded_url) ==
  IF uploaded_url = None THEN files ELSE unlink(files, path)

\* The clean-up of the local file after the upload attempt (lines 1067-1072).
CleanUpLocal(files, path, uploaded_url) == unlink(files, path)

\* handle_generated_video after compress_video returned (lines 1056-1072): a
\* local file is copied to the static directory (which may fail) and deleted;
\* the URL to deliver is the public URL of the copy, else the original.
hgv_upload(j) ==
  /\ jobs[j].pc = "compressed"
  /\ LET path == jobs[j].compressed_video_path
     IN  IF path # None /\ path # jobs[j].video_url
           THEN \E copyOk \in BOOLEAN :
                  LET uploaded_url == upload_file_to_temp_server(tmp, path, copyOk)
                  IN  /\ static' = IF copyOk /\ path \in tmp
                                     THEN static \cup {StaticFile(path)} ELSE static
                      /\ tmp' = CleanUpLocal(tmp, path, uploaded_url)
                      /\ Put(j, [jobs[j] EXCEPT
                                   !.pc = "deliver",
                                   !.max_size_mb = 0, !.output_bytes = 0,
                                   !.final_video_url =
                                      IF uploaded_url # None THEN uploaded_url
                                      ELSE jobs[j].video_url])
           ELSE /\ Put(j, [jobs[j] EXCEPT !.pc = "deliver",
                                          !.final_video_url = jobs[j].video_url])
                /\ UNCHANGED <<tmp, static>>
  /\ UNCHANGED <<answered, default_settings, ready, conversation_state, user_preferences>>

\* The dict handle_generated_video stores on completion (lines 1097-1101).
Completed(final_video_url) == [stage |-> "completed", last_video |-> final_video_url]

\* handle_generated_video, the media message (lines 1075-1104): when the send
\* reports success the job is completed and returns True.
hgv_deliver(j) ==
  /\ jobs[j].pc = "deliver"
  /\ \E createOk \in BOOLEAN, retryOk \in BOOLEAN :
       LET s == send_whatsapp_message(Msg("success", {}, ""), jobs[j].final_video_url,
                                      createOk, retryOk)
       IN  /\ conversation_state' =
                IF s.ret = "True"
                  THEN DictSet(conversation_state, jobs[j].phone_number,
                               Completed(jobs[j].final_video_url))
                  ELSE conversation_state
           /\ Put(j, [jobs[j] EXCEPT
                        !.calls = @ \o s.calls,
                        !.video_sent = s.ret,
                        !.pc = IF s.ret = "True" THEN "return"
                               ELSE AfterSend(s.ret, "fallback", "hgv_err_send"),
                        !.error = IF s.ret = "raise" THEN "TwilioError" ELSE "",
                        !.result = IF s.ret = "True" THEN "True" ELSE ""])
  /\ UNCHANGED <<answered, default_settings, ready, user_preferences, tmp, static>>

\* A fallback whose failure fails the job: the outcome of the send decides the
\* result and the stage.
hgv_fallback_checked(j) ==
  /\ jobs[j].pc = "fallback"
  /\ \E createOk \in BOOLEAN :
       LET s == send_whatsapp_message(Msg("fallback", {jobs[j].final_video_url}, ""),
                                      None, createOk, FALSE)
       IN  /\ conversation_state' =
                DictSet(conversation_state, jobs[j].phone_number,
                        IF s.ret = "True" THEN Completed(jobs[j].final_video_url)
                        ELSE [stage |-> "failed", error |-> "delivery"])
           /\ Put(j, [jobs[j] EXCEPT !.calls = @ \o s.calls, !.pc = "return",
                                      !.result = s.ret])
  /\ UNCHANGED <<answered, default_settings, ready, user_preferences, tmp, static>>

\* handle_generated_video, the fallback text with the link (lines 1085-1104):
\* its outcome is not looked at; the job is completed and returns True.
hgv_fallback(j) ==
  /\ jobs[j].pc = "fallback"
  /\ \E createOk \in BOOLEAN :
       LET s == send_whatsapp_message(Msg("fallback", {jobs[j].final_video_url}, ""),
                                      None, createOk, FALSE)
       IN  /\ conversation_state' =
                IF s.ret = "raise" THEN conversation_state
                ELSE DictSet(conversation_state, jobs[j].phone_number,
                             Completed(jobs[j].final_video_url))
           /\ Put(j, [jobs[j] EXCEPT
                        !.calls = @ \o s.calls,
                        !.pc = AfterSend(s.ret, "return", "hgv_err_send"),
                        !.error = IF s.ret = "raise" THEN "TwilioError" ELSE "",
                        !.result = IF s.ret = "raise" THEN "" ELSE "True"])
  /\ UNCHANGED <<answered, default_settings, ready, user_preferences, tmp, static>>

\* ----------------------------------------------------------- error handlers

\* The text each except block sends.
HandlerText(pc, error) ==
  CASE pc = "hvg_err_send" -> Msg("generation_failed", {}, error)
    [] pc = "hgv_err_send" -> Msg("processing_failed", {}, error)
    [] pc = "hsc_err_send" -> Msg("settings_failed", {}, "")
    [] OTHER -> Msg("something_went_wrong", {}, "")

\* Where an exception raised inside an except block is caught next:
\* handle_generated_video runs inside the try of handle_video_generation,
\* every handler inside the try of handle_incoming_message; an exception
\* raised in the except block of handle_incoming_message ends the task.
OuterHandler(pc) ==
  CASE pc = "hgv_err_send" -> "hvg_err_send"
    [] pc = "hvg_err_send" -> "him_err_send"
    [] pc = "hsc_err_send" -> "him_err_send"
    [] OTHER -> "return"

\* Except blocks that all end like the one of handle_generated_video: the
\* text is sent and False returned, and conversation_state is left as it is.
ExceptBlock_NoRecord(j) ==
  /\ jobs[j].pc \in {"hvg_err_send", "hgv_err_send", "hsc_err_send", "him_err_send"}
  /\ \E createOk \in BOOLEAN :
       LET s == send_whatsapp_message(HandlerText(jobs[j].pc, jobs[j].error), None,
                                      createOk, FALSE)
       IN  Put(j, [jobs[j] EXCEPT !.calls = @ \o s.calls, !.pc = "return",
                                  !.result = "False"])
  /\ UNCHANGED <<answered, default_settings, ready, conversation_state, user_preferences, tmp, static>>

\* The except blocks of handle_video_generation (1018-1033),
\* handle_generated_video (1106-1116), handle_settings_command (1162-1166)
\* and handle_incoming_message (955-959): send a text, return False.  Only
\* handle_video_generation records the failure in conversation_state.
ExceptBlock(j) ==
  /\ jobs[j].pc \in {"hvg_err_send", "hgv_err_send", "hsc_err_send", "him_err_send"}
  /\ \E createOk \in BOOLEAN :
       LET pc == jobs[j].pc
           s == send_whatsapp_message(HandlerText(pc, jobs[j].error), None, createOk, FALSE)
           raised == s.ret = "raise"
       IN  /\ conversation_state' =
                IF pc = "hvg_err_send" /\ ~raised
                  THEN DictSet(conversation_state, jobs[j].phone_number,
                               [stage |-> "failed", error |-> jobs[j].error])
                  ELSE conversation_state
           /\ Put(j, [jobs[j] EXCEPT
                        !.calls = @ \o s.calls,
                        !.pc = IF raised THEN OuterHandler(pc) ELSE "return",
                        !.error = IF raised THEN "TwilioError" ELSE @,
                        !.result = IF ~raised THEN "False"
                                   ELSE IF OuterHandler(pc) = "return" THEN "raised"
                                   ELSE ""])
  /\ UNCHANGED <<answered, default_settings, ready, user_preferences, tmp, static>>

\* ------------------------------------------------------------ specification

\* The event loop runs callbacks (webhook handlers, task starts) and the steps
\* of the task that holds it.
Next ==
  \/ Webhook
  \/ StartJob
  \/ \E j \in DOMAIN jobs : Reply(j)
  \/ \E j \in DOMAIN jobs : handle_settings_command(j)
  \/ \E j \in DOMAIN jobs : hvg_acknowledge(j)
  \/ \E j \in DOMAIN jobs : hvg_generate(j)
  \/ \E j \in DOMAIN jobs : cv_download(j)
  \/ \E j \in DOMAIN jobs : cv_probe(j, SpecDurations)
  \/ \E j \in DOMAIN jobs : cv_encode0(j, SpecSizes)
  \/ \E j \in DOMAIN jobs : cv_encode1(j, SpecSizes)
  \/ \E j \in DOMAIN jobs : hgv_upload(j)
  \/ \E j \in DOMAIN jobs : hgv_deliver(j)
  \/ \E j \in DOMAIN jobs : hgv_fallback(j)
  \/ \E j \in DOMAIN jobs : ExceptBlock(j)
  \/ \E j \in DOMAIN jobs : Finish(j)

Spec == Init /\ [][Next]_vars

\* A burst of /help messages from one sender: the same program under load.
NextLoad ==
  \/ WebhookLoad
  \/ StartJob
  \/ \E j \in DOMAIN jobs : Reply(j)
  \/ \E j \in DOMAIN jobs : Finish(j)

SpecLoad == Init /\ [][NextLoad]_vars

\* Settings commands of two senders.
NextSettings ==
  \/ WebhookSettings
  \/ StartJob
  \/ \E j \in DOMAIN jobs : handle_settings_command(j)
  \/ \E j \in DOMAIN jobs : Finish(j)

SpecSettings == Init /\ [][NextSettings]_vars

\* Requests of every kind, valid and not, each a /help message at most.
NextHook ==
  \/ WebhookHook
  \/ StartJob
  \/ \E j \in DOMAIN jobs : Reply(j)
  \/ \E j \in DOMAIN jobs : Finish(j)

SpecHook == Init /\ [][NextHook]_vars

\* One generation request, with every duration and size of the compression.
NextGen ==
  \/ WebhookGen
  \/ StartJob
  \/ \E j \in DOMAIN jobs : hvg_acknowledge(j)
  \/ \E j \in DOMAIN jobs : hvg_generate(j)
  \/ \E j \in DOMAIN jobs : cv_download(j)
  \/ \E j \in DOMAIN jobs : cv_probe(j, GenDurations)
  \/ \E j \in DOMAIN jobs : cv_encode0(j, GenSizes)
  \/ \E j \in DOMAIN jobs : cv_encode1(j, GenSizes)
  \/ \E j \in DOMAIN jobs : hgv_upload(j)
  \/ \E j \in DOMAIN jobs : hgv_deliver(j)
  \/ \E j \in DOMAIN jobs : hgv_fallback(j)
  \/ \E j \in DOMAIN jobs : ExceptBlock(j)
  \/ \E j \in DOMAIN jobs : Finish(j)

SpecGen == Init /\ [][NextGen]_vars

\* One step of a started task: each external call returns or fails.
TaskStep ==
  \E j \in DOMAIN jobs :
    \/ Reply(j) \/ handle_settings_command(j) \/ hvg_acknowledge(j) \/ hvg_generate(j)
    \/ cv_download(j) \/ cv_probe(j, SpecDurations) \/ cv_encode0(j, SpecSizes)
    \/ cv_encode1(j, SpecSizes)
    \/ hgv_upload(j) \/ hgv_deliver(j) \/ hgv_fallback(j) \/ ExceptBlock(j)
    \/ Finish(j)

\* The event loop keeps running: a created task is started when the loop is
\* free, and a started task takes its next step.
SpecFair == Spec /\ WF_vars(StartJob) /\ WF_vars(TaskStep)

\* ------------------------------------------------------------------- claims

\* Jobs submitted and not yet completed: created tasks that are not done.
Outstanding == Len(ready) + Cardinality(ExecutingJobs)

\* C1: at every instant the number of job bodies that have started and not
\* finished is at most maxConcurrent, 5.
C1_ConcurrencyCeiling == Cardinality(ExecutingJobs) <= 5

\* A job body is executing while more than 5 further jobs wait.
C1_Witness == Cardinality(ExecutingJobs) = 1 /\ Len(ready) > 5

\* C2: the number of submitted-but-not-completed jobs never exceeds the
\* capacity, 100: at capacity a submission is rejected and creates no job.
C2_Backpressure == Outstanding <= 100

\* The temp files of job j that are on disk.
TempFilesOf(j) == {f \in tmp : f[2] = j}

\* The create calls of job j that delivered, or tried to deliver, its video:
\* the media message, its text-only retry and the fallback text.
DeliveryCalls(j) ==
  {i \in DOMAIN jobs[j].calls : jobs[j].calls[i].body.kind \in {"success", "fallback"}}

\* The provider errors handle_video_generation catches.
GenerationErrors == {"ReplicateError", "No video output received from Replicate"}

\* C3 as stated: every error inside a job body (provider error, empty output,
\* transcode error, delivery error) is converted to a False return, and no
\* task ends with an exception.
C3_ErrorGivesFalse ==
  \A j \in DOMAIN jobs :
    /\ jobs[j].pc \in {"return", "done"} => jobs[j].result \in {"True", "False"}
    /\ (jobs[j].pc = "return"
        /\ \/ jobs[j].error \in GenerationErrors
           \/ jobs[j].cv_error # ""
           \/ \E i \in DeliveryCalls(j) : ~jobs[j].calls[i].ok)
       => jobs[j].result = "False"

\* C3, amended: an error inside a job body is caught inside that job and
\* converted to a value: a task never ends with an exception; a provider error
\* or an empty provider output makes the job return False after the failure
\* text was sent and the stage set to 'failed'; after a transcode error or a
\* delivery error the job goes on and returns True; and a task that waits
\* while no task runs can be started, whatever the jobs before it did.
C3_FailureIsolation ==
  /\ \A j \in DOMAIN jobs :
       /\ jobs[j].pc \in {"return", "done"} => jobs[j].result \in {"True", "False"}
       /\ (jobs[j].pc = "return" /\ jobs[j].error \in GenerationErrors)
          => /\ jobs[j].result = "False"
             /\ conversation_state[jobs[j].phone_number] =
                  [stage |-> "failed", error |-> jobs[j].error]
             /\ jobs[j].calls[Len(jobs[j].calls)].body.kind = "generation_failed"
       /\ (jobs[j].pc = "return"
           /\ \/ jobs[j].cv_error # ""
              \/ \E i \in DeliveryCalls(j) : ~jobs[j].calls[i].ok)
          => jobs[j].result = "True"
  /\ (LoopFree /\ ready # <<>>) => ENABLED StartJob

\* A job whose provider call raised returned False, and a job submitted after
\* it has run to its end.
C3_Witness ==
  \E a, b \in DOMAIN jobs :
    /\ a < b
    /\ jobs[a].pc = "done" /\ jobs[a].result = "False"
    /\ Route(jobs[a].message_body) = "generate"
    /\ jobs[b].pc = "return" /\ jobs[b].result = "True"

\* C4: when compress_video has returned, every temp file it created is
\* deleted except the file whose path it returned; when it returned the
\* original URL no temp file of it remains.
C4_NoTempFilesLeft ==
  \A j \in DOMAIN jobs :
    jobs[j].pc = "compressed" => TempFilesOf(j) \subseteq {jobs[j].compressed_video_path}

\* C5: when the download, the probe or an encoding attempt failed,
\* compress_video returned the original URL to its caller, which goes on to
\* deliver that URL.
C5_FallbackToOriginal ==
  \A j \in DOMAIN jobs :
    jobs[j].cv_error # "" =>
      /\ jobs[j].pc \in {"compressed", "deliver", "fallback", "return"}
      /\ jobs[j].video_url # None
      /\ jobs[j].compressed_video_path = jobs[j].video_url
      /\ jobs[j].pc # "compressed" => jobs[j].final_video_url = jobs[j].video_url

\* The second encoding attempt failed and the job is about to deliver the
\* original URL.
C5_Witness ==
  \E j \in DOMAIN jobs :
    /\ jobs[j].cv_error = "encode1" /\ jobs[j].pc = "deliver"
    /\ jobs[j].final_video_url = ReplicateUrl(j)

\* C6: when generation succeeded and the media message could not be
\* delivered, a text with the video link was sent instead and the job still
\* succeeds: it returns True with the stage 'completed'; when no delivery
\* attempt succeeded the fallback text was among the attempts.
C6_DeliveryFailureIsNotJobFailure ==
  \A j \in DOMAIN jobs :
    (/\ jobs[j].pc = "return"
     /\ \E i \in DeliveryCalls(j) :
          jobs[j].calls[i].media_url # None /\ ~jobs[j].calls[i].ok)
    => /\ jobs[j].result = "True"
       /\ conversation_state[jobs[j].phone_number] = Completed(jobs[j].final_video_url)
       /\ \E i \in DeliveryCalls(j) :
            /\ jobs[j].calls[i].media_url = None
            /\ jobs[j].final_video_url \in jobs[j].calls[i].body.links
       /\ (\A i \in DeliveryCalls(j) : ~jobs[j].calls[i].ok)
          => \E i \in DeliveryCalls(j) : jobs[j].calls[i].body.kind = "fallback"

\* Every delivery attempt of a generated video failed (media, retry and
\* fallback) and the job returns True.
C6_Witness ==
  \E j \in DOMAIN jobs :
    /\ jobs[j].pc = "return" /\ jobs[j].result = "True"
    /\ Cardinality(DeliveryCalls(j)) = 3
    /\ \A i \in DeliveryCalls(j) : ~jobs[j].calls[i].ok

\* Job n has run to its end with a success or failure outcome.
Resolved(n) ==
  /\ Len(jobs) >= n
  /\ jobs[n].pc = "done"
  /\ jobs[n].result \in {"True", "False"}

\* C7: every job the webhook spawned eventually finishes with a success or
\* failure outcome, whatever the other jobs do.
C7_EveryJobResolves == \A n \in 1..MaxJobs : (Len(jobs) >= n) ~> Resolved(n)

\* All the jobs of a full run are resolved, one of them failed.
C7_Witness ==
  /\ Len(jobs) = MaxJobs
  /\ \A n \in 1..MaxJobs : Resolved(n)
  /\ \E n \in 1..MaxJobs : jobs[n].result = "False"

Started(j) == jobs[j].pc # "pending"

\* C8: job bodies start in submission order: when a job has started, every
\* job submitted before it has started.
C8_FifoStart ==
  \A a, b \in DOMAIN jobs : (a < b /\ Started(b)) => Started(a)

\* A second job has started while a third one waits, after a first one ended.
C8_Witness ==
  /\ Len(jobs) >= 3
  /\ jobs[1].pc = "done" /\ Executing(2) /\ ~Started(3)

\* The steps that are an external call: provider, download, encoder, Twilio.
InBlockingCall(j) ==
  jobs[j].pc \in {"help", "noprompt", "welcome", "settings", "generate", "moderate",
                  "cv_download", "cv_probe", "cv_encode0", "cv_encode1",
                  "deliver", "fallback",
                  "hvg_err_send", "hgv_err_send", "hsc_err_send", "him_err_send"}

\* C9: while a job body is inside a blocking operation the dispatcher is not
\* blocked: a submission below capacity is accepted, and a waiting job can
\* start.
C9_DispatcherNotBlocked ==
  (\E j \in DOMAIN jobs : InBlockingCall(j))
    => /\ Len(jobs) < MaxJobs => ENABLED Webhook
       /\ ready # <<>> => ENABLED StartJob

\* The settings jobs of a sender whose update has been applied.
AppliedUpdates(sender) ==
  {j \in DOMAIN jobs :
     /\ jobs[j].phone_number = sender
     /\ Route(jobs[j].message_body) = "settings"
     /\ jobs[j].message_body # <<W("/settings")>>
     /\ parse_settings_command(jobs[j].message_body) # NoUpdates
     /\ jobs[j].pc \notin {"pending", "settings"}}

\* The orders in which the jobs of S can be run one after the other.
SerialOrders(S) ==
  {o \in [1..Cardinality(S) -> S] : \A x, y \in DOMAIN o : x # y => o[x] # o[y]}

\* The settings of a sender after the updates of the jobs o[1..n], applied in
\* that order to the defaults.
RECURSIVE SerialResult(_, _)
SerialResult(o, n) ==
  IF n = 0 THEN DEFAULT_SETTINGS
  ELSE DictUpdate(SerialResult(o, n - 1), parse_settings_command(jobs[o[n]].message_body))

\* The dicts job j can store in conversation_state.
StateWrites(j) ==
  {[stage |-> "generating", prompt |-> Prompt(j)], [stage |-> "rejected"]}
  \cup {[stage |-> "failed", error |-> e] :
          e \in {"ReplicateError", "No video output received from Replicate", "TwilioError"}}
  \cup {Completed(u) :
          u \in {ReplicateUrl(j), PublicUrl(TempFile(j, "_compressed.mp4")),
                 PublicUrl(TempFile(j, "_compressed2.mp4"))}}

\* C10: no lost update on the per-user maps: the settings of a sender are the
\* result of applying the updates of all its settings jobs in some serial
\* order, and the conversation state of a sender is a dict written whole by
\* one of its jobs.
C10_NoLostUpdates ==
  /\ \A sender \in FromNumbers :
       IF AppliedUpdates(sender) = {}
         THEN sender \notin DOMAIN user_preferences
         ELSE /\ sender \in DOMAIN user_preferences
              /\ \E o \in SerialOrders(AppliedUpdates(sender)) :
                   user_preferences[sender] = SerialResult(o, Len(o))
  /\ \A sender \in DOMAIN conversation_state :
       \E j \in DOMAIN jobs :
         /\ jobs[j].phone_number = sender
         /\ Route(jobs[j].message_body) = "generate"
         /\ Started(j)
         /\ conversation_state[sender] \in StateWrites(j)

\* Two settings jobs of one sender have run and the sender's settings hold
\* both updates.
C10_Witness ==
  \E sender \in FromNumbers :
    /\ Cardinality(AppliedUpdates(sender)) = 2
    /\ sender \in DOMAIN user_preferences
    /\ user_preferences[sender] =
         [aspect_ratio |-> "16:9", resolution |-> "720p", fps |-> 60, duration |-> 10]

\* C11: for every positive duration d and budget M, the bitrate b planned for
\* attempt 0 is the integer part of 0.9 * (M * 8 * 1024 / d) and satisfies
\* b * d / 8 <= M * 1024; for d = 10 s and M = 15 it is 11059, and
\* 11059 * 10 / 8 <= 15360.  Durations are in hundredths of a second, so the
\* inequalities are multiplied through by the duration and by 800.
C11_AttemptZeroWithinBudget ==
  \A j \in DOMAIN jobs :
    jobs[j].pc = "cv_encode0" =>
      LET d == jobs[j].duration
          b == jobs[j].target_bitrate
          M == jobs[j].max_size_mb
      IN  /\ d > 0 /\ b >= 0
          /\ b * d <= M * 8 * 1024 * 90
          /\ M * 8 * 1024 * 90 <= (b + 1) * d
          /\ b * d <= M * 1024 * 800
          /\ \A m \in Budgets : \A x \in AttemptZeroBitrate(m, d) :
               x * d <= m * 1024 * 800
          /\ (d = 10 * 100 /\ M = 15) => (b = 11059 /\ b * 10 <= 15360 * 8)

C11_Witness ==
  \E j \in DOMAIN jobs :
    /\ jobs[j].pc = "cv_encode0"
    /\ jobs[j].duration = 10 * 100
    /\ jobs[j].max_size_mb = 15
    /\ jobs[j].target_bitrate = 11059

\* C12: when the size measured after attempt 0 exceeds the budget,
\* compress_video runs exactly one more attempt, and its plan is strictly
\* more aggressive (a strictly lower video bitrate or a scale factor below
\* 1); when the size is within the budget the output of attempt 0 is returned
\* and there is no second attempt.
C12_OneEscalation ==
  [][\A j \in DOMAIN jobs :
       /\ (jobs[j].pc = "cv_encode0" /\ jobs'[j].pc = "cv_encode1") =>
            /\ jobs'[j].output_bytes > jobs[j].max_size_mb * MB
            /\ \/ jobs'[j].target_bitrate < jobs[j].target_bitrate
               \/ jobs'[j].scale < NoScale
            /\ jobs'[j].target_bitrate <= jobs[j].target_bitrate
            /\ jobs'[j].scale <= jobs[j].scale
       /\ (jobs[j].pc = "cv_encode0" /\ jobs'[j].pc = "compressed"
             /\ jobs'[j].compressed_video_path # jobs[j].video_url) =>
            /\ jobs'[j].output_bytes <= jobs[j].max_size_mb * MB
            /\ jobs'[j].compressed_video_path = jobs[j].output_path
            /\ jobs[j].output_path2 = None
       /\ jobs[j].pc = "cv_encode1" => jobs'[j].pc \in {"cv_encode1", "compressed"}
    ]_vars

C12_Witness ==
  \E j \in DOMAIN jobs :
    /\ jobs[j].pc = "cv_encode1"
    /\ jobs[j].output_bytes = MAX_SIZE_MB * MB + 1
    /\ jobs[j].duration = 10 * 100
    /\ jobs[j].target_bitrate = 7741
    /\ jobs[j].scale = AttemptOneScale

\* C13: the plan of attempt 1 is computed from the measured overshoot, so for
\* the same source a more severe overshoot gets a lower bitrate and a
\* stronger downscale than a milder one: the plan made after measuring a size
\* is below every plan the same attempt 0 gets for a smaller size over the
\* budget.
C13_PlanFollowsOvershoot ==
  [][\A j \in DOMAIN jobs :
       (jobs[j].pc = "cv_encode0" /\ jobs'[j].pc = "cv_encode1") =>
         \A mild \in GenSizes :
           (OverBudget(mild, jobs[j].max_size_mb) /\ mild < jobs'[j].output_bytes) =>
             \A p \in AttemptOnePlan(jobs[j].target_bitrate, mild, jobs[j].max_size_mb) :
               /\ jobs'[j].target_bitrate < p.target_bitrate
               /\ jobs'[j].scale < p.scale
    ]_vars

\* C14: whenever compress_video returns a local output file, the size of that
\* file is at most max_size_mb megabytes, after the second attempt too.
C14_ReturnedFileWithinBudget ==
  \A j \in DOMAIN jobs :
    (jobs[j].pc = "compressed" /\ jobs[j].compressed_video_path # jobs[j].video_url) =>
      jobs[j].output_bytes <= jobs[j].max_size_mb * MB

\* The texts the except blocks send to the user.
FailureKinds ==
  {"generation_failed", "processing_failed", "settings_failed", "something_went_wrong"}

\* C15: every failure message sent to the user on a failing path of a job is
\* a fixed text: no exception text is written into it.
C15_FailureTextIsFixed ==
  \A j \in DOMAIN jobs :
    \A i \in DOMAIN jobs[j].calls :
      jobs[j].calls[i].body.kind \in FailureKinds => jobs[j].calls[i].body.detail = ""

\* C16: send_whatsapp_message never raises and returns True exactly when one
\* of its create calls succeeded; a failed create with a media URL is followed
\* by exactly one text-only retry whose body holds the media URL, and a failed
\* create without a media URL ends the send with False.
C16_BestEffortSend ==
  \A j \in DOMAIN jobs :
    LET calls == jobs[j].calls
    IN  \A i \in DOMAIN calls :
          LET c == calls[i]
          IN  /\ c.returned \in {"", "True", "False"}
              /\ c.returned = "True" <=> c.ok
              /\ (~c.ok /\ c.media_url = None) => c.returned = "False"
              /\ (~c.ok /\ c.media_url # None) =>
                   /\ c.returned = ""
                   /\ i + 1 \in DOMAIN calls
                   /\ calls[i + 1].media_url = None
                   /\ calls[i + 1].body.kind = c.body.kind
                   /\ calls[i + 1].body.detail = c.body.detail
                   /\ calls[i + 1].body.links = c.body.links \cup {c.media_url}
                   /\ calls[i + 1].returned # ""
              /\ (c.body.kind = "success" /\ c.returned # "" /\ i = Len(calls)) =>
                   jobs[j].video_sent = c.returned

C16_Witness ==
  \E j \in DOMAIN jobs :
    \E i \in DOMAIN jobs[j].calls :
      /\ ~jobs[j].calls[i].ok
      /\ jobs[j].calls[i].media_url # None
      /\ i + 1 \in DOMAIN jobs[j].calls
      /\ jobs[j].calls[i + 1].ok
      /\ jobs[j].calls[i + 1].returned = "True"

\* The jobs that hold the URL they deliver: handle_generated_video has chosen
\* final_video_url and has not returned.
Delivering == {j \in DOMAIN jobs : jobs[j].final_video_url # None}

\* C17: the media URL delivered is the public URL of the transcoded file
\* exactly when compress_video returned a local file and the copy into the
\* static directory succeeded, and then the file behind that URL is in the
\* static directory when the delivery call is made; otherwise the delivered
\* URL is the provider's.
C17_DeliveredUrl ==
  \A j \in Delivering :
    LET path == jobs[j].compressed_video_path
        copied == path # jobs[j].video_url /\ StaticFile(path) \in static
    IN  /\ jobs[j].final_video_url =
             IF copied THEN PublicUrl(path) ELSE jobs[j].video_url
        /\ \A i \in DeliveryCalls(j) :
             /\ jobs[j].calls[i].media_url # None =>
                  jobs[j].calls[i].media_url = jobs[j].final_video_url
             /\ jobs[j].calls[i].media_url = None =>
                  jobs[j].final_video_url \in jobs[j].calls[i].body.links
             /\ jobs[j].final_video_url # jobs[j].video_url =>
                  \E f \in static : PublicUrl(f) = jobs[j].final_video_url

C17_Witness ==
  \E j \in Delivering :
    /\ jobs[j].final_video_url = PublicUrl(jobs[j].compressed_video_path)
    /\ StaticFile(jobs[j].compressed_video_path) \in static
    /\ \E i \in DeliveryCalls(j) :
         /\ jobs[j].calls[i].ok
         /\ jobs[j].calls[i].media_url = jobs[j].final_video_url

\* C19: a local file that compress_video handed to handle_generated_video is
\* deleted by it before the job finishes, whether the upload succeeded or
\* failed, and not before the upload attempt has read it: while the file
\* waits for the upload it exists and the copy can succeed; from the upload
\* on it is gone.
C19_LocalFileDeletedAfterUpload ==
  \A j \in DOMAIN jobs :
    LET path == jobs[j].compressed_video_path
    IN  (path # None /\ path # jobs[j].video_url) =>
          /\ jobs[j].pc = "compressed" =>
               /\ path \in tmp
               /\ ENABLED (hgv_upload(j) /\ StaticFile(path) \in static')
               /\ ENABLED (hgv_upload(j) /\ StaticFile(path) \notin static')
          /\ j \in Delivering => path \notin tmp

C19_Witness ==
  \E j \in Delivering :
    /\ jobs[j].compressed_video_path # jobs[j].video_url
    /\ jobs[j].final_video_url = jobs[j].video_url
    /\ jobs[j].compressed_video_path \notin tmp
    /\ jobs[j].pc = "return"

\* A request that names a sender and carries a message: its form can be read,
\* its From holds more than the prefix and its Body more than white space.
HasSenderAndBody(request) ==
  /\ request.readable
  /\ \E k \in DOMAIN request.From : request.From[k] # "whatsapp:"
  /\ \E k \in DOMAIN request.Body : request.Body[k] # WhiteSpace

\* The requests among the first n answered that created a task.
TasksCreated(n) == {i \in 1 .. n : answered[i].task # 0}

\* C18: every webhook request is answered with an empty TwiML response,
\* whether it is valid, invalid or cannot be read; exactly one job is
\* submitted for a request whose sender and body are both non-empty and none
\* for any other.
C18_AlwaysEmptyTwiML ==
  /\ \A i \in DOMAIN answered :
       /\ answered[i].content = EmptyTwiML
       /\ HasSenderAndBody(answered[i].request) <=> answered[i].task # 0
       /\ answered[i].task # 0 =>
            /\ answered[i].task = Cardinality(TasksCreated(i))
            /\ answered[i].task \in DOMAIN jobs
            /\ jobs[answered[i].task].phone_number \in
                 {answered[i].request.From[k] : k \in DOMAIN answered[i].request.From}
            /\ jobs[answered[i].task].message_body # <<>>
            /\ Head(jobs[answered[i].task].message_body) # WhiteSpace
  /\ Len(jobs) = Cardinality(TasksCreated(Len(answered)))

C18_Witness ==
  \E i, k, n \in DOMAIN answered :
    /\ ~answered[i].request.readable /\ answered[i].content = EmptyTwiML
    /\ answered[k].request.readable /\ answered[k].task = 0
    /\ answered[n].task = 1 /\ jobs[1].pc = "done"

\* A prompt the keyword filter judges inappropriate (lines 74-79).
Inappropriate(prompt) ==
  \E k \in DOMAIN prompt : prompt[k].k \in {"violence", "hate", "explicit", "harmful"}

\* C20: when moderate_content judges the prompt inappropriate,
\* handle_video_generation sends the moderation alert, sets the stage to
\* 'rejected' and returns False, and never calls the provider.
C20_ModerationGate ==
  \A j \in DOMAIN jobs :
    (Route(jobs[j].message_body) = "generate" /\ Inappropriate(Prompt(j))) =>
      /\ jobs[j].pc \in {"pending", "generate", "moderate", "return", "done"}
      /\ jobs[j].video_url = None
      /\ jobs[j].pc \in {"return", "done"} =>
           /\ jobs[j].result = "False"
           /\ \E i \in DOMAIN jobs[j].calls : jobs[j].calls[i].body.kind = "moderation"
           /\ conversation_state[jobs[j].phone_number].stage = "rejected"

\* The jobs of sender p that handle a generate message.
GenerateJobs(p) ==
  {j \in DOMAIN jobs : jobs[j].phone_number = p /\ Route(jobs[j].message_body) = "generate"}

\* C21: the conversation stage is never left at 'generating': once a job
\* that handled a generate message has returned, on any path, and no other
\* generate job of the sender is running, the sender's stage is 'completed',
\* 'failed' or 'rejected'; 'generating' holds only while a generate job of
\* the sender is in progress.
C21_StageNotLeftGenerating ==
  \A p \in FromNumbers :
    LET running == {j \in GenerateJobs(p) : jobs[j].pc \notin {"pending", "return", "done"}}
        returned == {j \in GenerateJobs(p) : jobs[j].pc \in {"return", "done"}}
    IN  /\ (returned # {} /\ running = {}) =>
             /\ p \in DOMAIN conversation_state
             /\ conversation_state[p].stage \in {"completed", "failed", "rejected"}
        /\ (p \in DOMAIN conversation_state /\ conversation_state[p].stage = "generating")
             => running # {}

C21_Witness ==
  \E p \in FromNumbers :
    \E j, k \in GenerateJobs(p) :
      /\ jobs[j].pc = "done" /\ jobs[j].result = "False"
      /\ jobs[k].pc = "done" /\ jobs[k].result = "True"
      /\ conversation_state[p].stage \in {"completed", "failed"}

\* The delivery calls of job j that succeeded.
Delivered(j) == {i \in DeliveryCalls(j) : jobs[j].calls[i].ok}

\* C22: for one generated video at most one result notification is delivered:
\* among the media message, its text-only retry and the fallback text at most
\* one create call succeeds, and at most three are attempted.
C22_AtMostOneDelivery ==
  \A j \in DOMAIN jobs :
    /\ Cardinality(Delivered(j)) <= 1
    /\ Cardinality(DeliveryCalls(j)) <= 3
    /\ \A i \in Delivered(j) : \A k \in DeliveryCalls(j) : k <= i

C22_Witness ==
  \E j \in DOMAIN jobs :
    /\ Cardinality(DeliveryCalls(j)) = 3
    /\ Cardinality(Delivered(j)) = 1
    /\ jobs[j].pc = "return"

\* A settings dict with all four keys and allowed values only.
ValidSettings(prefs) ==
  /\ DOMAIN prefs = {"aspect_ratio", "resolution", "fps", "duration"}
  /\ prefs.aspect_ratio \in {"16:9", "9:16", "1:1", "4:3"}
  /\ prefs.resolution \in {"480p", "720p", "1080p"}
  /\ prefs.fps \in {24, 30, 60}
  /\ prefs.duration \in {3, 5, 10}

\* C23: after any sequence of settings commands from any senders, every
\* entry of user_preferences has all four keys and only allowed values; so
\* have the settings a handler reads.
C23_PreferencesValid ==
  /\ \A p \in DOMAIN user_preferences : ValidSettings(user_preferences[p])
  /\ \A j \in DOMAIN jobs : jobs[j].prefs # NoUpdates => ValidSettings(jobs[j].prefs)

C23_Witness ==
  /\ DOMAIN user_preferences = {"+111", "+222"}
  /\ user_preferences["+111"] =
       [aspect_ratio |-> "16:9", resolution |-> "1080p", fps |-> 24, duration |-> 5]
  /\ user_preferences["+222"] =
       [aspect_ratio |-> "16:9", resolution |-> "720p", fps |-> 30, duration |-> 10]
  /\ \E j \in DOMAIN jobs :
       /\ jobs[j].message_body = <<W("/settings"), KV("duration", "10"), KV("fps", "25")>>
       /\ jobs[j].pc = "done"

\* The settings commands of SettingsBodies that name no allowed key with an
\* allowed value, and the bare query.
NoUpdateBodies ==
  { <<W("/settings")>>,
    <<W("/settings"), KV("fps", "25")>>,
    <<W("/settings"), KV("duration", "7")>>,
    <<W("/settings"), KV("resolution", "4k")>>,
    <<W("/settings"), KV("color", "red")>>,
    <<W("/settings"), W("ratio"), W("2:1")>> }

\* The jobs whose settings command is handled in the step.
SettingsHandled == {j \in DOMAIN jobs : jobs[j].pc = "settings" /\ jobs'[j].pc # "settings"}

\* C24: a settings command of sender A changes only user_preferences[A]: no
\* other sender's entry appears, disappears or changes, and DEFAULT_SETTINGS
\* keeps its original value, so a sender without an entry is shown the
\* original defaults; a command with no valid update and a bare '/settings'
\* leave user_preferences as it is; no other step writes user_preferences.
C24_SettingsFrame ==
  [][/\ default_settings = DEFAULT_SETTINGS
     /\ default_settings' = DEFAULT_SETTINGS
     /\ SettingsHandled = {} => user_preferences' = user_preferences
     /\ \A j \in SettingsHandled :
          /\ \A p \in FromNumbers \ {jobs[j].phone_number} :
               /\ p \in DOMAIN user_preferences' <=> p \in DOMAIN user_preferences
               /\ p \in DOMAIN user_preferences => user_preferences'[p] = user_preferences[p]
          /\ jobs[j].message_body \in NoUpdateBodies =>
               user_preferences' = user_preferences
          /\ jobs[j].message_body \notin NoUpdateBodies =>
               jobs[j].phone_number \in DOMAIN user_preferences'
          /\ (jobs[j].message_body = <<W("/settings")>>
                /\ jobs[j].phone_number \notin DOMAIN user_preferences) =>
               jobs'[j].prefs = DEFAULT_SETTINGS
    ]_vars

C24_Witness ==
  /\ DOMAIN user_preferences = {"+111"}
  /\ user_preferences["+111"] # DEFAULT_SETTINGS
  /\ \E j \in DOMAIN jobs :
       /\ jobs[j].phone_number = "+222"
       /\ jobs[j].message_body = <<W("/settings")>>
       /\ jobs[j].pc = "return"
       /\ jobs[j].prefs = DEFAULT_SETTINGS

\* C25: no use after delete in the compression pipeline: a file that a step
\* is about to probe, encode from, measure, copy or delete is still there.
\* The downloaded source exists until attempt 0 has finished and is gone
\* afterwards; the output of attempt 0 exists until attempt 1 has finished
\* reading it and is gone afterwards; a file handed to the caller exists
\* until the caller has copied it.
C25_NoUseAfterDelete ==
  \A j \in DOMAIN jobs :
    /\ jobs[j].pc \in {"cv_probe", "cv_encode0"} =>
         /\ jobs[j].input_path \in tmp
         /\ jobs[j].output_path \in tmp
    /\ jobs[j].pc = "cv_encode1" =>
         /\ jobs[j].input_path \notin tmp
         /\ jobs[j].output_path \in tmp
         /\ jobs[j].output_path2 \in tmp
         /\ jobs[j].output_path # jobs[j].output_path2
         /\ jobs[j].output_path # jobs[j].input_path
    /\ (jobs[j].pc = "compressed" /\ jobs[j].compressed_video_path # jobs[j].video_url) =>
         /\ jobs[j].compressed_video_path \in tmp
         /\ TempFile(j, ".mp4") \notin tmp
         /\ jobs[j].compressed_video_path = TempFile(j, "_compressed2.mp4") =>
              TempFile(j, "_compressed.mp4") \notin tmp

C25_Witness ==
  \E j \in DOMAIN jobs :
    /\ jobs[j].pc = "compressed"
    /\ jobs[j].compressed_video_path = TempFile(j, "_compressed2.mp4")
    /\ tmp = {TempFile(j, "_compressed2.mp4")}

=============================================================================
